---- MODULE Spec2Model ----
(***************************************************************************)
(* Model of dynav/policy/sarl.py: the attention value network              *)
(* (ValueNetwork.forward) and the one-step-lookahead decision procedure    *)
(* (SARL.predict, SARL.transform, SARL.get_attention_weights).             *)
(*                                                                         *)
(* Numbers: floats are modelled by exact rationals <<num, den>> (den > 0); *)
(* float('-inf') is <<-1, 0>>.  The softmax uses base 2 instead of base e  *)
(* so that the weights stay rational.  Probabilities and the exploration   *)
(* rate are in tenths (5 is 0.5).                                          *)
(* Tensors are nested sequences: a (B, N, D) tensor is a sequence of B     *)
(* samples, each a sequence of N rows, each a sequence of D numbers.       *)
(* namedtuple states are tuples, so that `+` is \o as in the source.       *)
(***************************************************************************)
EXTENDS Integers, Sequences, FiniteSets

VARIABLES phase, device, epsilon, kinematics, model, action_space, last_state,
          attention_weights, evaluated, call, ret

vars == <<phase, device, epsilon, kinematics, model, action_space, last_state,
          attention_weights, evaluated, call, ret>>

\* ------------------------------------------------------------------ options
\* Python's None and a present value.
None == [isNone |-> TRUE]
Some(x) == [isNone |-> FALSE, val |-> x]

\* ------------------------------------------------------------------ numbers
Abs(x) == IF x < 0 THEN -x ELSE x

RECURSIVE Gcd(_, _)
Gcd(a, b) == IF b = 0 THEN a ELSE Gcd(b, a % b)

\* A rational in lowest terms with a positive denominator.
Rat(n, d) ==
    LET g == Gcd(Abs(n), Abs(d))
        s == IF d < 0 THEN -1 ELSE 1
    IN  <<(s * n) \div g, (s * d) \div g>>

RInt(n) == <<n, 1>>
RAdd(a, b) == Rat(a[1] * b[2] + b[1] * a[2], a[2] * b[2])
RMul(a, b) == Rat(a[1] * b[1], a[2] * b[2])

\* float('-inf')
NegInf == <<-1, 0>>

\* a > b for a finite a and a b that is finite or -inf
RGreater(a, b) == b[2] = 0 \/ a[1] * b[2] > b[1] * a[2]

RECURSIVE Pow(_, _)
Pow(b, e) == IF e = 0 THEN 1 ELSE b * Pow(b, e - 1)

RPow(a, e) == Rat(Pow(a[1], e), Pow(a[2], e))

\* Euclidean norm of an integer vector: exact along an axis, which is where the
\* modelled world lies (all y coordinates are 0), rounded down elsewhere
Norm(dx, dy) ==
    IF dy = 0 THEN Abs(dx)
    ELSE IF dx = 0 THEN Abs(dy)
    ELSE CHOOSE n \in 0..(Abs(dx) + Abs(dy)) :
            n * n <= dx * dx + dy * dy /\ (n + 1) * (n + 1) > dx * dx + dy * dy

\* ------------------------------------------------------------------ states
\* FullState: <<px, py, vx, vy, radius, gx, gy, v_pref, theta>>
\* ObservableState: <<px, py, vx, vy, radius>>
\* theta counts half turns (0 faces +x, 1 faces -x).
Px(s) == s[1]
Py(s) == s[2]
Vx(s) == s[3]
Vy(s) == s[4]
Radius(s) == s[5]
Gx(s) == s[6]
Gy(s) == s[7]
VPref(s) == s[8]
Theta(s) == s[9]

FullState(px, py, vx, vy, radius, gx, gy, v_pref, theta) ==
    <<px, py, vx, vy, radius, gx, gy, v_pref, theta>>
ObservableState(px, py, vx, vy, radius) == <<px, py, vx, vy, radius>>

JointState(self_state, ped_states) ==
    [self_state |-> self_state, ped_states |-> ped_states]

\* ------------------------------------------------------------------ actions
ActionXY(vx, vy) == [kind |-> "XY", vx |-> vx, vy |-> vy]
ActionRot(v, r) == [kind |-> "Rot", v |-> v, r |-> r]

\* ------------------------------------------------------------ configuration
\* rl.gamma, read by configure
gamma == <<9, 10>>
\* action_space.speed_samples and action_space.rotation_samples, read by configure
speed_samples == 1
rotation_samples == 2
\* the environment's step length, an attribute of the base policy
time_step == 1

Kinematics == {"holonomic", "unicycle"}

\* cos of an angle given in half turns (sin is 0 for all of them)
Cos(h) == IF h % 2 = 0 THEN 1 ELSE -1

\* ------------------------------------------------- base policy (CADRL) parts
\* goal-reached predicate: the distance to the goal is below the radius
reach_destination(state) ==
    LET s == state.self_state
    IN  Norm(Px(s) - Gx(s), Py(s) - Gy(s)) < Radius(s)

Speeds(v_pref) == [i \in 1..speed_samples |-> (v_pref * i) \div speed_samples]
\* rotations in half turns, spread over the full turn
Rotations == [k \in 1..rotation_samples |-> (2 * (k - 1)) \div rotation_samples]

\* one candidate per (rotation, speed), rotation-major, after the stop action
Candidate(kin, rotation, speed) ==
    IF kin = "holonomic"
    THEN ActionXY(speed * Cos(rotation), 0)
    ELSE ActionRot(speed, rotation)

build_action_space(v_pref, kin) ==
    LET speeds == Speeds(v_pref)
        n == rotation_samples * speed_samples
        stop == IF kin = "holonomic" THEN ActionXY(0, 0) ELSE ActionRot(0, 0)
    IN  <<stop>> \o
        [i \in 1..n |->
            Candidate(kin, Rotations[((i - 1) \div speed_samples) + 1],
                      speeds[((i - 1) % speed_samples) + 1])]

\* one time step of dynamics; an ObservableState moves with the given velocity,
\* a FullState moves under the action according to the kinematics
propagate(state, action, kin) ==
    IF Len(state) = 5
    THEN ObservableState(Px(state) + action.vx * time_step,
                         Py(state) + action.vy * time_step,
                         action.vx, action.vy, Radius(state))
    ELSE IF kin = "holonomic"
         THEN FullState(Px(state) + action.vx * time_step,
                        Py(state) + action.vy * time_step,
                        action.vx, action.vy, Radius(state),
                        Gx(state), Gy(state), VPref(state), Theta(state))
         ELSE LET next_theta == (Theta(state) + action.r) % 2
                  next_vx == action.v * Cos(next_theta)
              IN  FullState(Px(state) + next_vx * time_step, Py(state),
                            next_vx, 0, Radius(state),
                            Gx(state), Gy(state), VPref(state), next_theta)

\* immediate reward: -1/4 on a collision at the end of the step with any other
\* agent, 1 on reaching the goal, 0 otherwise
reward(state, action, kin, delta_t) ==
    LET s == state.self_state
        end == propagate(s, action, kin)
        collision ==
            \E i \in 1..Len(state.ped_states) :
                LET ped == state.ped_states[i]
                    ped_end == propagate(ped, ActionXY(Vx(ped), Vy(ped)), kin)
                IN  Norm(Px(end) - Px(ped_end), Py(end) - Py(ped_end))
                        < Radius(s) + Radius(ped)
        reaching_goal == Norm(Px(end) - Gx(s), Py(end) - Gy(s)) < Radius(s)
    IN  IF collision THEN Rat(-1, 4)
        ELSE IF reaching_goal THEN RInt(1)
        ELSE RInt(0)

\* world frame -> ego-centric frame of one (self, other agent) row of 14 fields;
\* the goal lies on the x axis, so the rotation is by 0 or by a half turn
rotate(row, kin) ==
    LET dx == row[6] - row[1]
        dy == row[7] - row[2]
        c == IF dx >= 0 THEN 1 ELSE -1
        dg == Norm(dx, dy)
        v_pref == row[8]
        vx == row[3] * c
        vy == row[4] * c
        radius == row[5]
        theta == IF kin = "unicycle"
                 THEN (row[9] - (IF c = 1 THEN 0 ELSE 1)) % 2
                 ELSE 0
        vx1 == row[12] * c
        vy1 == row[13] * c
        px1 == (row[10] - row[1]) * c
        py1 == (row[11] - row[2]) * c
        radius1 == row[14]
        radius_sum == radius + radius1
        da == Norm(row[1] - row[10], row[2] - row[11])
    IN  <<dg, v_pref, theta, radius, vx, vy, px1, py1, vx1, vy1, radius1, da,
          radius_sum>>

\* the rows of a list of (1, D) tensors, in order
RECURSIVE Flatten(_)
Flatten(tensors) ==
    IF tensors = <<>> THEN <<>> ELSE Head(tensors) \o Flatten(Tail(tensors))

\* torch.cat taken to accept an empty list and yield an empty tensor
TorchCat_AcceptsEmpty(tensors) == [raised |-> FALSE, val |-> Flatten(tensors)]

\* torch.cat(tensors, dim=0): an empty list raises RuntimeError
TorchCat(tensors) ==
    IF tensors = <<>> THEN [raised |-> TRUE, exc |-> "RuntimeError"]
    ELSE [raised |-> FALSE, val |-> Flatten(tensors)]

\* ------------------------------------------------------- ValueNetwork.forward
\* Parameters of a network of width 1: mlp1 is four Linear layers with a ReLU
\* after each of the first three, attention and mlp2 are one Linear layer each.
\* w1 weighs the 13 ego-centric fields.  A network holds a named parameter set.
ThetaA ==
    [w1 |-> <<0, 0, 0, 0, 0, 0, 1, 0, 0, 0, 0, 0, 0>>, b1 |-> 1,
     w2 |-> 1, b2 |-> 0, w3 |-> 1, b3 |-> 0, w4 |-> 1, b4 |-> 0,
     wa |-> 1, ba |-> 0, wv |-> 1, bv |-> 0]
ThetaB ==
    [w1 |-> <<1, 0, 0, 0, 0, 0, 0, 0, 1, 0, 0, -1, 0>>, b1 |-> 0,
     w2 |-> 1, b2 |-> 0, w3 |-> 1, b3 |-> 0, w4 |-> -1, b4 |-> 2,
     wa |-> -1, ba |-> 0, wv |-> 2, bv |-> 1]
Models == {"A", "B"}
Parameters(m) == IF m = "A" THEN ThetaA ELSE ThetaB

ReLU(x) == IF x > 0 THEN x ELSE 0

RECURSIVE Dot(_, _)
Dot(w, x) ==
    IF w = <<>> THEN 0 ELSE Head(w) * Head(x) + Dot(Tail(w), Tail(x))

\* nn.Linear on a row, then the three hidden layers
Mlp1(theta, x) ==
    LET h1 == ReLU(Dot(theta.w1, x) + theta.b1)
        h2 == ReLU(theta.w2 * h1 + theta.b2)
        h3 == ReLU(theta.w3 * h2 + theta.b3)
    IN  theta.w4 * h3 + theta.b4

Attention(theta, f) == theta.wa * f + theta.ba

RECURSIVE SeqMin(_)
SeqMin(s) ==
    IF Len(s) = 1 THEN s[1]
    ELSE LET m == SeqMin(Tail(s)) IN IF Head(s) < m THEN Head(s) ELSE m

RECURSIVE SumInt(_)
SumInt(s) == IF s = <<>> THEN 0 ELSE Head(s) + SumInt(Tail(s))

RECURSIVE SumRat(_)
SumRat(s) == IF s = <<>> THEN RInt(0) ELSE RAdd(Head(s), SumRat(Tail(s)))

\* softmax over one sample's scores (base 2, shifted by the least score)
Softmax(scores) ==
    LET lo == SeqMin(scores)
        e == [n \in 1..Len(scores) |-> Pow(2, scores[n] - lo)]
        total == SumInt(e)
    IN  [n \in 1..Len(scores) |-> Rat(e[n], total)]

\* the weights broadcast along the wrong axis: every feature is weighted by
\* the weight of the first agent
Aggregate_FirstWeightForAll(weights, features) ==
    SumRat([n \in 1..Len(features) |-> RMul(weights[1], RInt(features[n]))])

\* line 39: the attention-weighted sum of one sample's features
Aggregate(weights, features) ==
    SumRat([n \in 1..Len(features) |-> RMul(weights[n], RInt(features[n]))])

\* forward(state) for a (B, N, D) tensor, B >= 1: the value of each sample and
\* the attention weights the call leaves in the cache (those of sample 1).
\* With N = 0 the reshape to (-1, D) of line 32 raises.
forward(theta, kin, state) ==
    LET B == Len(state)
        N == Len(state[1])
        mlp1_output == [b \in 1..B |->
                          [n \in 1..N |-> Mlp1(theta, rotate(state[b][n], kin))]]
        scores == [b \in 1..B |->
                     [n \in 1..N |-> Attention(theta, mlp1_output[b][n])]]
        weights == [b \in 1..B |-> Softmax(scores[b])]
        weighted_feature ==
            [b \in 1..B |-> Aggregate(weights[b], mlp1_output[b])]
        value == [b \in 1..B |->
                    RAdd(RMul(RInt(theta.wv), weighted_feature[b]),
                         RInt(theta.bv))]
    IN  IF N = 0 THEN [raised |-> TRUE, exc |-> "RuntimeError"]
        ELSE [raised |-> FALSE, value |-> value,
              attention_weights |-> weights[1]]

\* ------------------------------------------------------------------ inputs
\* the greatest preferred speed
MaxVPref == 2

\* the navigator at the origin: at its goal, or 4 away from it at each speed
SelfStates ==
    {FullState(0, 0, 0, 0, 1, 0, 0, 1, 0)} \cup
    {FullState(0, 0, 0, 0, 1, 4, 0, v_pref, 0) : v_pref \in 1..MaxVPref}

\* the other agents of the scene: the odd ones stand ahead of the navigator,
\* the even ones come up from behind
PedIds == {1, 2}
PedState(i) ==
    IF i % 2 = 1 THEN ObservableState(i + 1, 0, 0, 0, 1)
    ELSE ObservableState(-(i + 1), 0, 1, 0, 1)

\* the agents observed in a step: every ordering of every subset of them
PedOrders ==
    {o \in UNION {[1..n -> PedIds] : n \in 0..Cardinality(PedIds)} :
        \A i, j \in 1..Len(o) : i # j => o[i] # o[j]}
PedLists == {[i \in 1..Len(o) |-> PedState(o[i])] : o \in PedOrders}

JointStates == {JointState(s, peds) : s \in SelfStates, peds \in PedLists}

\* np.random.random() in tenths, and the exploration rates 0.0, 0.5 and 1.0
Probabilities == {0, 5}
Epsilons == {0, 5, 10}
\* a draw the call does not make
NoDraw == -1
Choices == 0..(rotation_samples * speed_samples)

\* ------------------------------------------------------------------- SARL
\* the policy object's fields
Policy ==
    [phase |-> phase, device |-> device, epsilon |-> epsilon,
     kinematics |-> kinematics, model |-> model, action_space |-> action_space,
     last_state |-> last_state, attention_weights |-> attention_weights,
     evaluated |-> evaluated]

\* lines 112-113: one row per other agent, the self state followed by the agent's
transform(state) ==
    TorchCat([i \in 1..Len(state.ped_states) |->
                <<state.self_state \o state.ped_states[i]>>])

\* the check of the device left out
PreconditionError_NoDeviceCheck(pol) ==
    \/ pol.phase = "None"
    \/ pol.phase = "train" /\ pol.epsilon.isNone

\* lines 71-74: the attributes predict needs
PreconditionError(pol) ==
    \/ pol.phase = "None" \/ pol.device = "None"
    \/ pol.phase = "train" /\ pol.epsilon.isNone

\* line 77: the action returned at the goal
GoalAction == ActionXY(0, 0)

\* exploration not restricted to the train phase
Explores_InAnyPhase(pol, probability) ==
    ~pol.epsilon.isNone /\ probability < pol.epsilon.val

\* exploration on a draw equal to the exploration rate too
Explores_AtOrBelow(pol, probability) ==
    pol.phase = "train" /\ probability <= pol.epsilon.val

\* line 81: whether the call explores
Explores(pol, probability) ==
    pol.phase = "train" /\ probability < pol.epsilon.val

\* the cache written only while it is empty
CacheWrite_OnlyOnce(old, weights) == IF old.isNone THEN Some(weights) ELSE old

\* line 37: the cache after a forward call that computed `weights`
CacheWrite(old, weights) == Some(weights)

\* lines 87-95: the value of one candidate, and the weights its forward call caches
Evaluate(theta, kin, state, action) ==
    LET batch_next_states ==
            TorchCat([i \in 1..Len(state.ped_states) |->
                LET ped_state == state.ped_states[i]
                    next_self_state == propagate(state.self_state, action, kin)
                    next_ped_state ==
                        propagate(ped_state,
                                  ActionXY(Vx(ped_state), Vy(ped_state)), kin)
                IN  <<next_self_state \o next_ped_state>>])
        out == forward(theta, kin, <<batch_next_states.val>>)
    IN  IF batch_next_states.raised THEN batch_next_states
        ELSE IF out.raised THEN out
        ELSE [raised |-> FALSE,
              value |-> RAdd(reward(state, action, kin, time_step),
                             RMul(RPow(gamma, VPref(state.self_state)),
                                  out.value[1])),
              attention_weights |-> out.attention_weights]

\* Evaluate tabulated once for every input, the candidates in enumeration order
Evaluations ==
    [kin \in Kinematics |-> [m \in Models |-> [state \in JointStates |->
        LET space == build_action_space(VPref(state.self_state), kin)
        IN  [i \in 1..Len(space) |->
                Evaluate(Parameters(m), kin, state, space[i])]]]]

\* a candidate of equal value replaces the running maximum too
Better_OrEqual(value, max_value) ==
    max_value[2] = 0 \/ value[1] * max_value[2] >= max_value[1] * value[2]

\* line 96: whether a candidate replaces the running maximum
Better(value, max_value) == RGreater(value, max_value)

\* lines 86-98: the loop over the action space from candidate i on; acc holds
\* max_value, max_action and the network's cache; evals[i] is the evaluation
\* of candidate i
RECURSIVE GreedyLoop(_, _, _, _)
GreedyLoop(space, evals, i, acc) ==
    IF i > Len(space) THEN acc
    ELSE IF evals[i].raised
         THEN [acc EXCEPT !.raised = TRUE]
         ELSE GreedyLoop(space, evals, i + 1,
                [raised |-> FALSE,
                 max_value |-> IF Better(evals[i].value, acc.max_value)
                               THEN evals[i].value ELSE acc.max_value,
                 max_action |-> IF Better(evals[i].value, acc.max_value)
                                THEN Some(space[i]) ELSE acc.max_action,
                 attention_weights |->
                     CacheWrite(acc.attention_weights,
                                evals[i].attention_weights),
                 evaluated |-> TRUE])

\* the transformed state cached in every phase
CachesLastState_Always(pol) == TRUE

\* line 100: whether the call caches the transformed state
CachesLastState(pol) == pol.phase = "train"

Raise(exc) == [kind |-> "raise", exc |-> exc]
Return(value) == [kind |-> "return", value |-> value]

\* lines 71-103: the outcome of predict(state) and the fields it leaves, given the
\* draws of np.random.random (in tenths) and np.random.choice
predict(pol, state, probability, choice) ==
    IF PreconditionError(pol)
    THEN [ret |-> Raise("AttributeError"), pol |-> pol]
    ELSE IF reach_destination(state)
    THEN [ret |-> Return(Some(GoalAction)), pol |-> pol]
    ELSE
      LET space == build_action_space(VPref(state.self_state), pol.kinematics)
          pol1 == [pol EXCEPT !.action_space = Some(space)]
          greedy == GreedyLoop(space, Evaluations[pol.kinematics][pol.model][state], 1,
                        [raised |-> FALSE, max_value |-> NegInf,
                         max_action |-> None,
                         attention_weights |-> pol.attention_weights,
                         evaluated |-> pol.evaluated])
          explores == Explores(pol1, probability)
          max_action == IF explores THEN Some(space[choice + 1])
                        ELSE greedy.max_action
          pol2 == IF explores THEN pol1
                  ELSE [pol1 EXCEPT
                          !.attention_weights = greedy.attention_weights,
                          !.evaluated = greedy.evaluated]
          rows == transform(state)
      IN  IF ~explores /\ greedy.raised
          THEN [ret |-> Raise("RuntimeError"), pol |-> pol2]
          ELSE IF CachesLastState(pol2)
          THEN IF rows.raised
               THEN [ret |-> Raise("RuntimeError"), pol |-> pol2]
               ELSE [ret |-> Return(max_action),
                     pol |-> [pol2 EXCEPT !.last_state = Some(rows.val)]]
          ELSE [ret |-> Return(max_action), pol |-> pol2]

\* lines 115-116
get_attention_weights(pol) == pol.attention_weights

\* the draws a call makes: np.random.random() when line 80 is reached (past the
\* goal test), np.random.choice only when exploring (line 82)
ProbabilityDraws(pol, state) ==
    IF ~PreconditionError(pol) /\ ~reach_destination(state)
    THEN Probabilities ELSE {NoDraw}

ChoiceDraws(pol, probability) ==
    IF probability # NoDraw /\ Explores(pol, probability)
    THEN Choices ELSE {NoDraw}

\* ----------------------------------------------------------------- behaviour
\* after SARL() and configure(config)
Init ==
    /\ phase = "None"
    /\ device = "None"
    /\ epsilon = None
    /\ kinematics \in Kinematics
    /\ model \in Models
    /\ action_space = None
    /\ last_state = None
    /\ attention_weights = None
    /\ evaluated = FALSE
    /\ call = [op |-> "configure"]
    /\ ret = Return(None)

set_phase ==
    \E p \in {"train", "eval"} :
        /\ phase' = p
        /\ call' = [op |-> "set_phase"]
        /\ ret' = Return(None)
        /\ UNCHANGED <<device, epsilon, kinematics, model, action_space,
                       last_state, attention_weights, evaluated>>

set_device ==
    /\ device' = "cpu"
    /\ call' = [op |-> "set_device"]
    /\ ret' = Return(None)
    /\ UNCHANGED <<phase, epsilon, kinematics, model, action_space, last_state,
                   attention_weights, evaluated>>

set_epsilon ==
    \E e \in Epsilons :
        /\ epsilon' = Some(e)
        /\ call' = [op |-> "set_epsilon"]
        /\ ret' = Return(None)
        /\ UNCHANGED <<phase, device, kinematics, model, action_space,
                       last_state, attention_weights, evaluated>>

Predict ==
    \E state \in JointStates :
      \E probability \in ProbabilityDraws(Policy, state) :
        \E choice \in ChoiceDraws(Policy, probability) :
          \E out \in {predict(Policy, state, probability, choice)} :
            /\ ret' = out.ret
            /\ action_space' = out.pol.action_space
            /\ last_state' = out.pol.last_state
            /\ attention_weights' = out.pol.attention_weights
            /\ evaluated' = out.pol.evaluated
            /\ call' = [op |-> "predict", state |-> state,
                        probability |-> probability, choice |-> choice]
            /\ UNCHANGED <<phase, device, epsilon, kinematics, model>>

GetAttentionWeights ==
    /\ ret' = Return(get_attention_weights(Policy))
    /\ call' = [op |-> "get_attention_weights"]
    /\ UNCHANGED <<phase, device, epsilon, kinematics, model, action_space,
                   last_state, attention_weights, evaluated>>

Next ==
    \/ set_phase
    \/ set_device
    \/ set_epsilon
    \/ Predict
    \/ GetAttentionWeights

Spec == Init /\ [][Next]_vars

\* ------------------------------------------------------------------ claims
\* What the claims speak of, stated on the variables.  phase, device, epsilon,
\* kinematics and model are the same before and after a predict call, so a
\* state predicate on them describes the call that produced the state.
IsPredict == call.op = "predict"
PreconditionsMet ==
    /\ phase # "None" /\ device # "None"
    /\ phase = "train" => epsilon # None
GoalReached == reach_destination(call.state)
Returned == ret.kind = "return"
OnExplorationPath ==
    /\ IsPredict /\ PreconditionsMet /\ ~GoalReached
    /\ phase = "train" /\ call.probability < epsilon.val
OnGreedyPath ==
    /\ IsPredict /\ PreconditionsMet /\ ~GoalReached
    /\ phase = "eval" \/ ~(call.probability < epsilon.val)
NumPeds == Len(call.state.ped_states)

\* the stop action of a kinematics mode
StopAction(kin) == IF kin = "holonomic" THEN ActionXY(0, 0) ELSE ActionRot(0, 0)

\* the candidate action space of the call's state
CandidateSpace == build_action_space(VPref(call.state.self_state), kinematics)

\* the candidates' values reward + gamma^v_pref * V(next state), in order
CandidateValues(state) ==
    [i \in 1..(rotation_samples * speed_samples + 1) |->
        Evaluations[kinematics][model][state][i].value]

\* the first index holding the greatest value
FirstMax(values) ==
    CHOOSE i \in 1..Len(values) :
        /\ \A j \in 1..Len(values) : ~RGreater(values[j], values[i])
        /\ \A j \in 1..(i - 1) : RGreater(values[i], values[j])

\* the rows transform(state) yields: the self state followed by each agent's
ExpectedRows(state) ==
    [i \in 1..Len(state.ped_states) |->
        state.self_state \o state.ped_states[i]]

\* the same policy with no history: nothing built, cached or evaluated
FreshPolicy ==
    [Policy EXCEPT !.action_space = None, !.last_state = None,
                   !.attention_weights = None, !.evaluated = FALSE]

\* ---- C1
\* C1: a predict call made while phase or device is unset, or in train phase
\* while epsilon is unset, raises the precondition error (AttributeError),
\* returns no action, and leaves the action space, last_state and the cached
\* attention weights as they were.
C1_PreconditionFailure ==
    [][(call'.op = "predict" /\ ~PreconditionsMet) =>
          /\ ret' = Raise("AttributeError")
          /\ action_space' = action_space
          /\ last_state' = last_state
          /\ attention_weights' = attention_weights]_vars

\* a train-phase call without epsilon, after an earlier call built the action
\* space, was rejected
C1_Witness ==
    /\ IsPredict /\ phase = "train" /\ device = "cpu" /\ epsilon = None
    /\ ret = Raise("AttributeError")
    /\ action_space # None

\* ---- C2
\* C2 (as claimed): with the preconditions met and the goal reached, predict
\* returns the stop action of the configured kinematics mode and leaves the
\* cached attention weights unchanged.
C2_StopActionOfKinematics ==
    [][(call'.op = "predict" /\ PreconditionsMet
            /\ reach_destination(call'.state)) =>
          /\ ret' = Return(Some(StopAction(kinematics)))
          /\ attention_weights' = attention_weights]_vars

\* ---- C3
\* C3 (as claimed): every predict call that returns yields an action (never
\* None) that is a member of the candidate action space built for the state's
\* preferred speed under the configured kinematics.
C3_ReturnsMemberOfActionSpace ==
    (IsPredict /\ Returned) =>
        /\ ret.value # None
        /\ \E i \in 1..Len(CandidateSpace) : CandidateSpace[i] = ret.value.val

\* ---- C4
\* C4: on the greedy path predict returns the candidate whose value
\* reward + gamma^v_pref * V(next state) is greatest, and among several
\* candidates of that value the first in enumeration order.
C4_GreedyFirstMaximum ==
    (OnGreedyPath /\ Returned) =>
        ret.value = Some(CandidateSpace[FirstMax(CandidateValues(call.state))])

\* a greedy call returned while two candidates shared the greatest value
C4_Witness ==
    /\ OnGreedyPath /\ Returned
    /\ LET values == CandidateValues(call.state)
           best == FirstMax(values)
       IN  \E j \in 1..Len(values) : j > best /\ values[j] = values[best]

\* ---- C5
\* C5: in eval phase the action predict returns for a joint state is the one a
\* policy of the same configuration and model with no history returns for it
\* under fixed draws; so any two eval calls on the same state, configuration
\* and model agree, whatever their draws and whatever calls ran before.
C5_EvalDeterministic ==
    (IsPredict /\ PreconditionsMet /\ phase = "eval") =>
        ret = predict(FreshPolicy, call.state, 0, 0).ret

\* an eval call past the goal test, after a train call and a forward
\* evaluation, whose draw was below the exploration rate
C5_Witness ==
    /\ IsPredict /\ PreconditionsMet /\ phase = "eval" /\ ~GoalReached
    /\ Returned /\ last_state # None /\ epsilon # None
    /\ call.probability < epsilon.val

\* ---- C6
\* what an eval-phase call on the same state leaves, from the state before the
\* call in train phase
EvalTwin(state, probability) ==
    predict([Policy EXCEPT !.phase = "eval"], state, probability, 0)

TrainWithoutExploration ==
    /\ call'.op = "predict"
    /\ phase = "train" /\ device # "None" /\ epsilon = Some(0)

\* C6 (as claimed): in train phase with exploration rate 0.0 predict returns the
\* action an eval-phase call returns and leaves the action space, the cached
\* attention weights and last_state as the eval-phase call would.
C6_TrainZeroEqualsEval ==
    [][TrainWithoutExploration =>
          LET twin == EvalTwin(call'.state, call'.probability)
          IN  /\ ret' = twin.ret
              /\ action_space' = twin.pol.action_space
              /\ attention_weights' = twin.pol.attention_weights
              /\ last_state' = twin.pol.last_state]_vars

\* C6 (amended): in train phase with exploration rate 0.0 predict returns (or
\* raises) what an eval-phase call does and leaves the same action space and
\* cached attention weights; last_state is the one difference: the train-phase
\* call sets it to transform(state) when it returns past the goal test, where
\* the eval-phase call leaves it unchanged.
C6_TrainZeroEqualsEvalButLastState ==
    [][TrainWithoutExploration =>
          LET twin == EvalTwin(call'.state, call'.probability)
          IN  /\ ret' = twin.ret
              /\ action_space' = twin.pol.action_space
              /\ attention_weights' = twin.pol.attention_weights
              /\ twin.pol.last_state = last_state
              /\ last_state' =
                    IF ret'.kind = "return" /\ ~reach_destination(call'.state)
                    THEN Some(ExpectedRows(call'.state))
                    ELSE last_state]_vars

\* a train-phase call with exploration rate 0.0 whose draw was 0.0 chose its
\* action by the greedy search
C6_Witness ==
    /\ OnGreedyPath /\ phase = "train" /\ epsilon = Some(0)
    /\ call.probability = 0 /\ Returned /\ NumPeds = 2

\* ---- C7
LastStateRule ==
    /\ (phase = "train" /\ ret'.kind = "return"
            /\ ~reach_destination(call'.state))
          => last_state' = Some(ExpectedRows(call'.state))
    /\ (phase # "train" \/ ret'.kind = "raise"
            \/ reach_destination(call'.state))
          => last_state' = last_state

\* C7 (as claimed): last_state is written only by a train-phase call that
\* selects an action (by exploration or greedy search), to transform(state);
\* eval-phase, goal-reached and failing calls leave it unchanged; and predict
\* changes no policy state other than last_state and the attention cache.
C7_OnlyLastStateAndCache ==
    [][call'.op = "predict" =>
          /\ LastStateRule
          /\ UNCHANGED <<phase, device, epsilon, kinematics, model,
                         action_space>>]_vars

\* C7 (amended): the same rule for last_state; predict changes no policy state
\* other than last_state, the attention cache and the action space, and the
\* action space only on a call that passes the preconditions and the goal test,
\* which sets it to the space built for that state's preferred speed.
C7_OnlyLastStateCacheAndActionSpace ==
    [][call'.op = "predict" =>
          /\ LastStateRule
          /\ UNCHANGED <<phase, device, epsilon, kinematics, model>>
          /\ action_space' =
                IF PreconditionsMet /\ ~reach_destination(call'.state)
                THEN Some(build_action_space(VPref(call'.state.self_state),
                                             kinematics))
                ELSE action_space]_vars

\* a train-phase call took the exploration short-circuit and cached the
\* transformed state
C7_Witness ==
    /\ OnExplorationPath /\ Returned /\ call.choice # NoDraw
    /\ ~evaluated
    /\ last_state = Some(ExpectedRows(call.state))

\* ---- C8
\* the weights the forward call for the last candidate leaves in the cache
LastCandidateWeights(state) ==
    Evaluations[kinematics][model][state]
        [rotation_samples * speed_samples + 1].attention_weights

CacheStep ==
    /\ call'.op = "get_attention_weights" =>
          /\ ret' = Return(attention_weights)
          /\ UNCHANGED <<phase, device, epsilon, kinematics, model,
                         action_space, last_state, attention_weights>>
    /\ call'.op = "predict" =>
          attention_weights' =
              IF /\ PreconditionsMet /\ ~reach_destination(call'.state)
                 /\ phase = "eval" \/ ~(call'.probability < epsilon.val)
                 /\ Len(call'.state.ped_states) > 0
              THEN Some(LastCandidateWeights(call'.state))
              ELSE attention_weights

\* C8: get_attention_weights changes nothing and returns the cache, which is
\* None exactly while no forward evaluation has occurred; a greedy predict
\* leaves in it the weights computed for the last candidate in enumeration
\* order, and goal-reached, exploration and failed predict calls leave it as it
\* was.
C8_AttentionCache ==
    /\ [](attention_weights = None <=> ~evaluated)
    /\ [][CacheStep]_vars

\* the accessor returned the weights over two agents left by a greedy predict
C8_Witness ==
    /\ call.op = "get_attention_weights"
    /\ ret.value # None /\ Len(ret.value.val) = 2
    /\ evaluated

\* ---- C9
\* the joint state with its other agents reordered by the permutation perm
Reordered(state, perm) ==
    JointState(state.self_state,
               [i \in 1..Len(perm) |-> state.ped_states[perm[i]]])

Reorderings(n) ==
    {perm \in [1..n -> 1..n] : \A i, j \in 1..n : i # j => perm[i] # perm[j]}

\* the value the network returns for the joint state presented as one sample
NetworkValue(state) ==
    forward(Parameters(model), kinematics, <<ExpectedRows(state)>>).value[1]

\* C9: for every reordering of the N >= 1 other agents of the state of a
\* greedy predict, the network's value of the state and the action a greedy
\* predict chooses are those of the original order.
C9_PermutationInvariant ==
    (OnGreedyPath /\ Returned /\ NumPeds >= 1) =>
        \A perm \in Reorderings(NumPeds) :
            LET other == Reordered(call.state, perm)
            IN  /\ NetworkValue(other) = NetworkValue(call.state)
                /\ CandidateValues(other) = CandidateValues(call.state)
                /\ predict(Policy, other, call.probability, 0).ret = ret

\* a greedy predict returned for a state holding two different agents
C9_Witness ==
    /\ OnGreedyPath /\ Returned /\ NumPeds = 2
    /\ call.state.ped_states[1] # call.state.ped_states[2]
    /\ attention_weights.val[1] # attention_weights.val[2]

\* ---- C10
\* C10: with the preconditions met, the goal not reached and no other agents,
\* predict ends in an error and returns no action, in eval phase and in train
\* phase on both the exploration and the greedy path.
C10_EmptyAgentSetRejected ==
    (IsPredict /\ PreconditionsMet /\ ~GoalReached /\ NumPeds = 0) =>
        ret = Raise("RuntimeError")

\* a train-phase call that explored on a state without other agents ended in
\* the error
C10_Witness ==
    /\ OnExplorationPath /\ NumPeds = 0 /\ call.choice # NoDraw
    /\ ret.kind = "raise"

====
